---- MODULE Spec2Model ----
(***************************************************************************)
(* Camera access widgets: the lifecycle of a capture stream in the three   *)
(* React components of the repository.                                     *)
(*                                                                         *)
(*   "CameraComponent"  src/unnamed/part_000, lines 23-311                 *)
(*   "App"              src/src/App.tsx, SimpleCameraComponent             *)
(*   "Basic"            src/unnamed/part_000, lines 318-410                *)
(*                                                                         *)
(* A handler is a function from the committed state (the values its        *)
(* closure captured at the last render) to the state after its setState    *)
(* calls; Commit is React's re-render that follows every synchronous       *)
(* segment: effect cleanups run, the video element is (un)mounted and the  *)
(* closures are refreshed.  An await splits a handler: the part after the  *)
(* await is a separate action, taken when the host settles the promise.    *)
(***************************************************************************)
EXTENDS Integers, Sequences, FiniteSets, Bags

VARIABLES
    variant,        \* which component is mounted
    hasCamera,      \* navigator.mediaDevices.getUserMedia exists
    hasPermissions, \* navigator.permissions exists
    hostPerm,       \* the host's camera permission state
    mounted,        \* the component is mounted
    stream,         \* useState stream: 0 is null, else an index of streams
    isActive,       \* useState isActive (isStreaming in "Basic")
    isLoading,      \* useState isLoading
    error,          \* useState error
    facingMode,     \* useState facingMode
    permissions,    \* useState permissions
    srcObject,      \* videoRef.current.srcObject: 0 is null or no element
    streams,        \* every MediaStream the host granted, in grant order
    requests,       \* number of getUserMedia requests the host received
    calls,          \* bag of the startCamera calls suspended at an await
    permQuery,      \* the mount effect's permissions.query promise
    listening,      \* handleUserInteraction is registered on document
    playPending     \* a videoRef.current.play() promise is unsettled

vars == <<variant, hasCamera, hasPermissions, hostPerm, mounted, stream,
          isActive, isLoading, error, facingMode, permissions, srcObject,
          streams, requests, calls, permQuery, listening, playPending>>

(***************************************************************************)
(* Bounds                                                                  *)
(***************************************************************************)
MaxRequests == 2    \* getUserMedia requests the host receives in one behaviour

MaxCalls == 2       \* startCamera calls suspended at the same time

(***************************************************************************)
(* Values                                                                  *)
(***************************************************************************)
Variants == {"CameraComponent", "App", "Basic"}

FacingModes == {"user", "environment"}

PermissionStates == {"granted", "denied", "prompt"}

\* DOMException names getUserMedia rejects with; "AbortError" stands for
\* every name the catch blocks do not test for
ErrorNames == {"NotAllowedError", "NotFoundError", "NotReadableError",
               "OverconstrainedError", "AbortError"}

MsgNone == ""

MsgNotSupported == "Camera not supported on this device"

MsgDenied == "Camera access denied. Please allow camera permissions."

MsgNotFound == "No camera found on this device."

MsgInUse == "Camera is already in use by another application."

MsgTrying == "Camera constraints not supported. Trying basic settings..."

MsgAnySettings == "Unable to access camera with any settings."

MsgTryAgain == "Unable to access camera. Please try again."

MsgPlay == "Failed to play video stream."

MsgFailed == "Failed to access camera. Please ensure you have given camera permissions."

(***************************************************************************)
(* The state as one record, and its use as the next state                  *)
(***************************************************************************)
State ==
    [variant |-> variant, hasCamera |-> hasCamera,
     hasPermissions |-> hasPermissions, hostPerm |-> hostPerm,
     mounted |-> mounted, stream |-> stream, isActive |-> isActive,
     isLoading |-> isLoading, error |-> error, facingMode |-> facingMode,
     permissions |-> permissions, srcObject |-> srcObject,
     streams |-> streams, requests |-> requests, calls |-> calls,
     permQuery |-> permQuery,
     listening |-> listening, playPending |-> playPending]

IsState(r) ==
    /\ variant = r.variant
    /\ hasCamera = r.hasCamera
    /\ hasPermissions = r.hasPermissions
    /\ hostPerm = r.hostPerm
    /\ mounted = r.mounted
    /\ stream = r.stream
    /\ isActive = r.isActive
    /\ isLoading = r.isLoading
    /\ error = r.error
    /\ facingMode = r.facingMode
    /\ permissions = r.permissions
    /\ srcObject = r.srcObject
    /\ streams = r.streams
    /\ requests = r.requests
    /\ calls = r.calls
    /\ permQuery = r.permQuery
    /\ listening = r.listening
    /\ playPending = r.playPending

Becomes(r) ==
    /\ variant' = r.variant
    /\ hasCamera' = r.hasCamera
    /\ hasPermissions' = r.hasPermissions
    /\ hostPerm' = r.hostPerm
    /\ mounted' = r.mounted
    /\ stream' = r.stream
    /\ isActive' = r.isActive
    /\ isLoading' = r.isLoading
    /\ error' = r.error
    /\ facingMode' = r.facingMode
    /\ permissions' = r.permissions
    /\ srcObject' = r.srcObject
    /\ streams' = r.streams
    /\ requests' = r.requests
    /\ calls' = r.calls
    /\ permQuery' = r.permQuery
    /\ listening' = r.listening
    /\ playPending' = r.playPending

(***************************************************************************)
(* Host streams                                                            *)
(***************************************************************************)
\* stream.getTracks().forEach(track => track.stop()) on stream id (0: null)
StopTracks(strs, id) ==
    IF id = 0 THEN strs ELSE [strs EXCEPT ![id].stops = @ + 1]

\* the streams that still have a live track
LiveStreams(strs) == {i \in 1..Len(strs) : strs[i].stops = 0}

\* the bag b with one more, one less copy of c, and with d in place of c
Add(b, c) == b (+) SetToBag({c})

Remove(b, c) == b (-) SetToBag({c})

Replace(b, c, d) == Add(Remove(b, c), d)

(***************************************************************************)
(* Constraints handed to getUserMedia                                      *)
(***************************************************************************)
getConstraints(v, facing) ==
    [facingMode |-> facing,
     resolution |-> IF v = "CameraComponent" THEN "ideal1280x720" ELSE "none",
     audio |-> FALSE]

basicConstraints == [facingMode |-> "none", resolution |-> "none", audio |-> FALSE]

fixedConstraints == [facingMode |-> "none", resolution |-> "640x480", audio |-> FALSE]

(***************************************************************************)
(* React: what is rendered, and the commit after a synchronous segment     *)
(***************************************************************************)
\* videoRef.current is non-null: the <video> element is in the DOM.  The
\* two full components render it only while isActive, "Basic" always.
VideoRendered(s) ==
    /\ s.mounted
    /\ \/ s.variant = "Basic"
       \/ s.hasCamera /\ s.isActive

\* the deps of the interaction effect: [isActive, isLoading, permissions]
InteractionDeps(s) == <<s.isActive, s.isLoading, s.permissions>>

\* s is the committed state the segment started from, n the state after the
\* segment's setState calls.  setState on an unmounted component is dropped.
\* On a mounted one the cleanup of the [stream] effect stops the previous
\* stream when stream changed, the interaction effect re-registers its
\* listeners when one of its deps changed, and a <video> element that is
\* no longer rendered takes its srcObject with it.
Commit(s, n) ==
    IF ~s.mounted
    THEN [n EXCEPT !.stream = s.stream, !.isActive = s.isActive,
                   !.isLoading = s.isLoading, !.error = s.error,
                   !.facingMode = s.facingMode,
                   !.permissions = s.permissions]
    ELSE [n EXCEPT
            !.streams = IF n.stream # s.stream
                        THEN StopTracks(n.streams, s.stream)
                        ELSE n.streams,
            !.srcObject = IF VideoRendered(n) THEN n.srcObject ELSE 0,
            !.listening = IF /\ n.variant = "CameraComponent"
                             /\ InteractionDeps(n) # InteractionDeps(s)
                          THEN TRUE
                          ELSE n.listening]

(***************************************************************************)
(* startCamera up to its first await.  cl is the closure the call runs in: *)
(* the stream and facingMode of the render that created the function.      *)
(***************************************************************************)
Closure(s) == [stream |-> s.stream, facingMode |-> s.facingMode]

MountClosure == [stream |-> 0, facingMode |-> "user"]

\* a suspended call: the await it is at, the constraints of its request and
\* the stream its closure holds
Call(phase, constraints, str) ==
    [phase |-> phase, constraints |-> constraints, stream |-> str]

startCameraBasic(s) ==
    IF ~s.hasCamera
    THEN [s EXCEPT !.error = MsgFailed]
    ELSE [s EXCEPT !.error = MsgNone,
                   !.requests = @ + 1,
                   !.calls = Add(@, Call("first", fixedConstraints, 0))]

startCameraApp(s, cl) ==
    IF ~s.hasCamera
    THEN [s EXCEPT !.error = MsgNotSupported]
    ELSE IF ~s.hasPermissions
    THEN [s EXCEPT !.error = MsgTryAgain, !.isLoading = FALSE]
    ELSE [s EXCEPT !.isLoading = TRUE, !.error = MsgNone,
                   !.calls = Add(@, Call("query",
                                 getConstraints(s.variant, cl.facingMode),
                                 cl.stream))]

\* startCamera without its hasCamera guard
startCameraFullNoProbe(s, cl) ==
    [s EXCEPT !.isLoading = TRUE, !.error = MsgNone,
              !.streams = StopTracks(@, cl.stream),
              !.requests = @ + 1,
              !.calls = Add(@, Call("first",
                            getConstraints(s.variant, cl.facingMode),
                            cl.stream))]

startCameraFull(s, cl) ==
    IF ~s.hasCamera
    THEN [s EXCEPT !.error = MsgNotSupported]
    ELSE [s EXCEPT !.isLoading = TRUE, !.error = MsgNone,
                   !.streams = StopTracks(@, cl.stream),
                   !.requests = @ + 1,
                   !.calls = Add(@, Call("first",
                                 getConstraints(s.variant, cl.facingMode),
                                 cl.stream))]

startCamera(s, cl) ==
    CASE s.variant = "CameraComponent" -> startCameraFull(s, cl)
      [] s.variant = "App" -> startCameraApp(s, cl)
      [] s.variant = "Basic" -> startCameraBasic(s)

(***************************************************************************)
(* stopCamera                                                              *)
(***************************************************************************)
\* stopCamera without its setStream(null)
stopCameraKeepsStream(s) ==
    [s EXCEPT
        !.streams = StopTracks(@, s.stream),
        !.isActive = FALSE,
        !.srcObject = IF VideoRendered(s) THEN 0 ELSE @,
        !.error = IF s.variant = "App" THEN MsgNone ELSE @]

stopCamera(s) ==
    [s EXCEPT
        !.streams = StopTracks(@, s.stream),
        !.stream = 0,
        !.isActive = FALSE,
        !.srcObject = IF VideoRendered(s) THEN 0 ELSE @,
        !.error = IF s.variant = "App" THEN MsgNone ELSE @]

(***************************************************************************)
(* switchCamera: startCamera is the function of the current render, so it  *)
(* reads the facingMode and stream of that render.                         *)
(***************************************************************************)
Toggle(facing) == IF facing = "user" THEN "environment" ELSE "user"

\* switchCamera without its isActive test
switchCameraAlwaysStarts(s) ==
    startCamera([s EXCEPT !.facingMode = Toggle(s.facingMode)], Closure(s))

switchCamera(s) ==
    LET t == [s EXCEPT !.facingMode = Toggle(s.facingMode)]
    IN  IF s.isActive THEN startCamera(t, Closure(s)) ELSE t

(***************************************************************************)
(* startCamera after an await: the host settled the promise of calls[i]    *)
(***************************************************************************)
\* App.tsx: navigator.permissions.query resolved with the host's state
queryResolved(s, c) ==
    IF s.hostPerm = "denied"
    THEN [s EXCEPT !.permissions = s.hostPerm, !.error = MsgDenied,
                   !.isLoading = FALSE, !.calls = Remove(@, c)]
    ELSE [s EXCEPT !.permissions = s.hostPerm,
                   !.streams = StopTracks(@, c.stream),
                   !.requests = @ + 1,
                   !.calls = Replace(@, c, Call("first", c.constraints,
                                                c.stream))]

\* App.tsx: navigator.permissions.query rejected; the catch block runs
queryRejected(s, c) ==
    [s EXCEPT !.error = MsgTryAgain, !.isLoading = FALSE,
              !.calls = Remove(@, c)]

\* getUserMedia resolved with a new stream
granted(s, c) ==
    LET id == Len(s.streams) + 1
        t == [s EXCEPT !.streams = Append(@, [stops |-> 0,
                                              constraints |-> c.constraints]),
                       !.calls = Remove(@, c)]
        bound == IF VideoRendered(s) THEN id ELSE s.srcObject
    IN  CASE s.variant = "Basic" ->
               IF VideoRendered(s)
               THEN [t EXCEPT !.srcObject = id, !.stream = id,
                              !.isActive = TRUE]
               ELSE t
          [] s.variant = "App" ->
               [t EXCEPT !.stream = id, !.isActive = TRUE,
                         !.permissions = "granted", !.srcObject = bound,
                         !.playPending = IF VideoRendered(s) THEN TRUE ELSE @,
                         !.isLoading = FALSE]
          [] s.variant = "CameraComponent" /\ c.phase = "first" ->
               [t EXCEPT !.stream = id, !.isActive = TRUE,
                         !.permissions = "granted", !.srcObject = bound,
                         !.isLoading = FALSE]
          [] s.variant = "CameraComponent" /\ c.phase = "fallback" ->
               [t EXCEPT !.stream = id, !.isActive = TRUE,
                         !.srcObject = bound, !.error = MsgNone,
                         !.isLoading = FALSE]

\* rejected without the setIsLoading(false) of the finally block
rejectedWithoutFinally(s, c, e) ==
    LET t == [s EXCEPT !.calls = Remove(@, c)]
    IN  CASE s.variant = "Basic" -> [t EXCEPT !.error = MsgFailed]
          [] s.variant # "Basic" /\ c.phase = "fallback" ->
               [t EXCEPT !.error = MsgAnySettings]
          [] s.variant # "Basic" /\ c.phase = "first"
                /\ e = "NotAllowedError" ->
               [t EXCEPT !.error = MsgDenied, !.permissions = "denied"]
          [] s.variant # "Basic" /\ c.phase = "first"
                /\ e = "NotFoundError" ->
               [t EXCEPT !.error = MsgNotFound]
          [] s.variant # "Basic" /\ c.phase = "first"
                /\ e = "NotReadableError" ->
               [t EXCEPT !.error = MsgInUse]
          [] s.variant = "CameraComponent" /\ c.phase = "first"
                /\ e = "OverconstrainedError" ->
               [s EXCEPT !.error = MsgTrying,
                         !.requests = @ + 1,
                         !.calls = Replace(@, c, Call("fallback",
                                               basicConstraints, c.stream))]
          [] OTHER ->
               [t EXCEPT !.error = MsgTryAgain]

\* getUserMedia rejected with a DOMException named e
rejected(s, c, e) ==
    LET t == [s EXCEPT !.calls = Remove(@, c)]
    IN  CASE s.variant = "Basic" -> [t EXCEPT !.error = MsgFailed]
          [] s.variant # "Basic" /\ c.phase = "fallback" ->
               [t EXCEPT !.error = MsgAnySettings, !.isLoading = FALSE]
          [] s.variant # "Basic" /\ c.phase = "first"
                /\ e = "NotAllowedError" ->
               [t EXCEPT !.error = MsgDenied, !.permissions = "denied",
                         !.isLoading = FALSE]
          [] s.variant # "Basic" /\ c.phase = "first"
                /\ e = "NotFoundError" ->
               [t EXCEPT !.error = MsgNotFound, !.isLoading = FALSE]
          [] s.variant # "Basic" /\ c.phase = "first"
                /\ e = "NotReadableError" ->
               [t EXCEPT !.error = MsgInUse, !.isLoading = FALSE]
          [] s.variant = "CameraComponent" /\ c.phase = "first"
                /\ e = "OverconstrainedError" ->
               [s EXCEPT !.error = MsgTrying,
                         !.requests = @ + 1,
                         !.calls = Replace(@, c, Call("fallback",
                                               basicConstraints, c.stream))]
          [] OTHER ->
               [t EXCEPT !.error = MsgTryAgain, !.isLoading = FALSE]

(***************************************************************************)
(* Effects                                                                 *)
(***************************************************************************)
\* CameraComponent's mount effect: permissions.query resolved.  startCamera
\* is the function of the first render.
\* the mount effect without its test of result.state
permissionEffectAlwaysStarts(s) ==
    startCamera([s EXCEPT !.permissions = s.hostPerm,
                          !.permQuery = "subscribed"], MountClosure)

permissionEffect(s) ==
    LET t == [s EXCEPT !.permissions = s.hostPerm, !.permQuery = "subscribed"]
    IN  IF s.hostPerm = "granted"
        THEN startCamera(t, MountClosure)
        ELSE t

\* the 'change' listener the mount effect registered on the PermissionStatus
permissionChanged(s, p) ==
    IF s.permQuery = "subscribed"
    THEN [s EXCEPT !.hostPerm = p, !.permissions = p]
    ELSE [s EXCEPT !.hostPerm = p]

\* CameraComponent's document listener; it removes itself after one event
\* handleUserInteraction without its test of permissions
handleUserInteractionIgnoresDenied(s) ==
    LET t == [s EXCEPT !.listening = FALSE]
    IN  IF ~s.isActive /\ ~s.isLoading
        THEN startCamera(t, Closure(s))
        ELSE t

handleUserInteraction(s) ==
    LET t == [s EXCEPT !.listening = FALSE]
    IN  IF ~s.isActive /\ ~s.isLoading /\ s.permissions # "denied"
        THEN startCamera(t, Closure(s))
        ELSE t

\* the cleanups that run at unmount: the [stream] effect stops the current
\* stream and the interaction effect removes its listeners
unmount(s) ==
    [s EXCEPT !.mounted = FALSE, !.streams = StopTracks(@, s.stream),
              !.srcObject = 0, !.listening = FALSE]

\* App.tsx: the play() promise rejected
playRejected(s) == [s EXCEPT !.error = MsgPlay, !.playPending = FALSE]

(***************************************************************************)
(* Initial state: the component right after it mounted                     *)
(***************************************************************************)
FirstRender(v, hc, hp, p) ==
    [variant |-> v, hasCamera |-> hc, hasPermissions |-> hp, hostPerm |-> p,
     mounted |-> TRUE, stream |-> 0, isActive |-> FALSE, isLoading |-> FALSE,
     error |-> MsgNone, facingMode |-> "user", permissions |-> "prompt",
     srcObject |-> 0, streams |-> <<>>, requests |-> 0, calls |-> EmptyBag,
     permQuery |-> IF v = "CameraComponent" /\ hp THEN "pending" ELSE "none",
     listening |-> (v = "CameraComponent"), playPending |-> FALSE]

\* "Basic" calls startCamera in its mount effect
Mounted(v, hc, hp, p) ==
    IF v = "Basic"
    THEN startCamera(FirstRender(v, hc, hp, p), MountClosure)
    ELSE FirstRender(v, hc, hp, p)

Init ==
    \E v \in Variants, hc \in BOOLEAN, hp \in BOOLEAN, p \in PermissionStates :
        IsState(Mounted(v, hc, hp, p))

(***************************************************************************)
(* Actions                                                                 *)
(***************************************************************************)
\* the buttons are rendered only when hasCamera ("Basic" has no probe)
ControlsRendered == mounted /\ (variant = "Basic" \/ hasCamera)

\* the step to state n, within the bounds
Step(n) ==
    /\ n.requests <= MaxRequests
    /\ BagCardinality(n.calls) <= MaxCalls
    /\ Becomes(n)

\* the Start button is disabled while isLoading ("Basic" has no isLoading)
ClickStart ==
    /\ ControlsRendered
    /\ ~isActive
    /\ variant # "Basic" => ~isLoading
    /\ Step(Commit(State, startCamera(State, Closure(State))))

ClickStop ==
    /\ ControlsRendered
    /\ isActive
    /\ Step(Commit(State, stopCamera(State)))

ClickSwitch ==
    /\ ControlsRendered
    /\ variant # "Basic"
    /\ isActive
    /\ Step(Commit(State, switchCamera(State)))

\* a click, touchstart or keydown on the page, away from the buttons.  The
\* effect re-registers the handler whenever isActive, isLoading or
\* permissions changed, and stream and facingMode change only together
\* with one of them while the handler would start the camera, so the
\* handler's closure is the current render.
UserInteraction ==
    /\ mounted
    /\ listening
    /\ Step(Commit(State, handleUserInteraction(State)))

PermissionQueryResolves ==
    /\ permQuery = "pending"
    /\ Step(Commit(State, permissionEffect(State)))

PermissionQueryRejects ==
    /\ permQuery = "pending"
    /\ permQuery' = "none"
    /\ UNCHANGED <<variant, hasCamera, hasPermissions, hostPerm, mounted,
                   stream, isActive, isLoading, error, facingMode,
                   permissions, srcObject, streams, requests, calls,
                   listening, playPending>>

HostPermissionChanges ==
    \E p \in PermissionStates \ {hostPerm} :
        Step(Commit(State, permissionChanged(State, p)))

QueryResolves ==
    \E c \in BagToSet(calls) :
        /\ c.phase = "query"
        /\ Step(Commit(State, queryResolved(State, c)))

QueryRejects ==
    \E c \in BagToSet(calls) :
        /\ c.phase = "query"
        /\ Step(Commit(State, queryRejected(State, c)))

HostGrants ==
    \E c \in BagToSet(calls) :
        /\ c.phase # "query"
        /\ hostPerm # "denied"
        /\ Step(Commit(State, granted(State, c)))

HostRejects ==
    \E c \in BagToSet(calls), e \in ErrorNames :
        /\ c.phase # "query"
        /\ Step(Commit(State, rejected(State, c, e)))

PlayResolves ==
    /\ playPending
    /\ playPending' = FALSE
    /\ UNCHANGED <<variant, hasCamera, hasPermissions, hostPerm, mounted,
                   stream, isActive, isLoading, error, facingMode,
                   permissions, srcObject, streams, requests, calls,
                   permQuery, listening>>

PlayRejects ==
    /\ playPending
    /\ Step(Commit(State, playRejected(State)))

Unmount ==
    /\ mounted
    /\ Step(unmount(State))

Next ==
    \/ ClickStart
    \/ ClickStop
    \/ ClickSwitch
    \/ UserInteraction
    \/ PermissionQueryResolves
    \/ PermissionQueryRejects
    \/ HostPermissionChanges
    \/ QueryResolves
    \/ QueryRejects
    \/ HostGrants
    \/ HostRejects
    \/ PlayResolves
    \/ PlayRejects
    \/ Unmount

Spec == Init /\ [][Next]_vars

TypeOK ==
    /\ variant \in Variants
    /\ stream \in 0..Len(streams)
    /\ srcObject \in 0..Len(streams)
    /\ facingMode \in FacingModes
    /\ permissions \in PermissionStates
    /\ requests \in 0..MaxRequests
    /\ BagCardinality(calls) <= MaxCalls
    /\ Len(streams) <= requests

(***************************************************************************)
(* Vocabulary of the properties                                            *)
(***************************************************************************)
\* the suspended calls whose getUserMedia request is in flight
Requesting(b) == {c \in BagToSet(b) : c.phase # "query"}

InFlight(b) == BagCardinality([c \in Requesting(b) |-> b[c]])

\* the calls that step to the next state adds
NewCalls == {c \in BagToSet(calls') : CopiesIn(c, calls') > CopiesIn(c, calls)}

\* the error kind of section 7 a stored message stands for
ErrorKind(msg) ==
    CASE msg = MsgNotSupported -> "Unsupported"
      [] msg = MsgDenied -> "PermissionDenied"
      [] msg = MsgNotFound -> "DeviceNotFound"
      [] msg = MsgInUse -> "DeviceBusy"
      [] msg = MsgTrying -> "ConstraintsNotSatisfiable"
      [] msg \in {MsgAnySettings, MsgTryAgain, MsgFailed} -> "Unavailable"
      [] OTHER -> "None"

\* the step is the rejection of the request of call c with error name e
RejectStep(c, e) ==
    /\ c.phase # "query"
    /\ Becomes(Commit(State, rejected(State, c, e)))

\* the step is the grant of the request of call c
GrantStep(c) ==
    /\ c.phase # "query"
    /\ Becomes(Commit(State, granted(State, c)))

(***************************************************************************)
(* Properties                                                              *)
(***************************************************************************)

\* C1: in CameraComponent, under every interleaving of the start, stop,
\* switch and automatic start triggers, the streams with unstopped tracks
\* and the getUserMedia requests in flight are together at most one.
OneGrantAtATime ==
    variant = "CameraComponent" =>
        Cardinality(LiveStreams(streams)) + InFlight(calls) <= 1

\* C2: once the component is unmounted and every promise it was waiting for
\* has settled, no stream the host granted has an unstopped track.
TeardownReleasesEveryStream ==
    (/\ variant # "Basic"
     /\ ~mounted
     /\ BagCardinality(calls) = 0
     /\ permQuery # "pending") => LiveStreams(streams) = {}

\* C3: when the host request of a startCamera call fails and the call ends,
\* isActive is false and no stream has an unstopped track.
FailedStartLeavesNothingHeld ==
    [][\A c \in BagToSet(calls), e \in ErrorNames :
          (/\ mounted
           /\ variant # "Basic"
           /\ RejectStep(c, e)
           /\ BagCardinality(calls') < BagCardinality(calls))
          => (~isActive' /\ LiveStreams(streams') = {})]_vars

\* C4: isActive implies that the stored stream is non-null, has unstopped
\* tracks and is the srcObject of the video element.
ActiveMeansLiveBoundStream ==
    (mounted /\ variant # "Basic" /\ isActive) =>
        /\ stream # 0
        /\ streams[stream].stops = 0
        /\ srcObject = stream

\* C5: switchCamera on an active session issues its request with the
\* toggled facing value, and when the host grants that request the state is
\* active with the toggled facingMode and a stream requested with it.
SwitchRequestsToggledFacing ==
    [][/\ (isActive /\ ClickSwitch) =>
            /\ facingMode' = Toggle(facingMode)
            /\ \A c \in NewCalls : c.constraints.facingMode = facingMode'
       /\ \A c \in BagToSet(calls) :
            (/\ mounted
             /\ c.stream # 0
             /\ BagCardinality(calls) = 1
             /\ GrantStep(c))
            => /\ isActive'
               /\ stream' = Len(streams')
               /\ streams'[stream'].constraints.facingMode = facingMode']_vars

\* C6: the tracks of the session a switchCamera call replaces are stopped
\* exactly once: once when the request for the new stream is in flight, and
\* still once after the host granted it.
SwitchStopsOldTracksOnce ==
    [][\A c \in Requesting(calls) :
          (mounted /\ c.stream # 0) =>
              /\ streams[c.stream].stops = 1
              /\ GrantStep(c) => streams'[c.stream].stops = 1]_vars

\* C7: while isLoading is true no new startCamera call begins and no
\* stopCamera takes effect.
BusyRejectsNewOperations ==
    [][(mounted /\ variant # "Basic" /\ isLoading) =>
          /\ BagCardinality(calls') <= BagCardinality(calls)
          /\ ~ClickStop]_vars

\* C8: a first request rejected with OverconstrainedError is followed by
\* exactly one further request, with the minimal constraints; when that one
\* is rejected too, no request follows and the error is Unavailable.
OverconstrainedFallsBackOnce ==
    [][\A c \in Requesting(calls) :
          (mounted /\ variant # "Basic") =>
              /\ (c.phase = "first" /\ RejectStep(c, "OverconstrainedError"))
                 => /\ requests' = requests + 1
                    /\ \E d \in NewCalls : /\ d.phase = "fallback"
                                           /\ d.constraints = basicConstraints
              /\ \A e \in ErrorNames :
                   (c.phase = "fallback" /\ RejectStep(c, e))
                   => /\ requests' = requests
                      /\ NewCalls = {}
                      /\ ErrorKind(error') = "Unavailable"]_vars

\* C9: when the host rejects a startCamera request with NotAllowedError,
\* the error is the PermissionDenied message, permissions is 'denied' and
\* isActive is false.
NotAllowedGivesDeniedInactive ==
    [][\A c \in Requesting(calls) :
          (/\ mounted
           /\ variant # "Basic"
           /\ c.phase = "first"
           /\ RejectStep(c, "NotAllowedError"))
          => /\ error' = MsgDenied
             /\ permissions' = "denied"
             /\ ~isActive']_vars

\* stopCamera and the render that follows it, from state s
Stopped(s) == Commit(s, stopCamera(s))

\* C10 as stated: stopCamera twice in a row gives the state stopCamera once
\* gives, and with no session active it changes nothing.
StopIsIdempotentAndNoOpWhenInactive ==
    mounted =>
        /\ Stopped(Stopped(State)) = Stopped(State)
        /\ (~isActive /\ stream = 0) => Stopped(State) = State

\* C10 as amended: stopCamera twice in a row gives the state stopCamera once
\* gives, and with no session active it changes nothing but the error,
\* which the App.tsx component clears.
StopIsIdempotent ==
    mounted =>
        /\ Stopped(Stopped(State)) = Stopped(State)
        /\ (~isActive /\ stream = 0) =>
              Stopped(State) = [State EXCEPT
                  !.error = IF variant = "App" THEN MsgNone ELSE @]

\* C10's case: stopCamera has ended an active session (its tracks were
\* stopped by the handler and by the [stream] cleanup) and nothing is
\* in flight.
StoppedAnActiveSession ==
    /\ mounted
    /\ ~isActive
    /\ stream = 0
    /\ BagCardinality(calls) = 0
    /\ Len(streams) = 1
    /\ streams[1].stops = 2

\* the operations and automatic start triggers of the components
Operation ==
    \/ ClickStart
    \/ ClickStop
    \/ ClickSwitch
    \/ UserInteraction
    \/ PermissionQueryResolves

StopReleasesAndClearsError ==
    [][(variant # "Basic" /\ isActive /\ stream # 0 /\ ClickStop) =>
          /\ streams'[stream].stops >= 1
          /\ srcObject' = 0
          /\ stream' = 0
          /\ ~isActive'
          /\ error' = MsgNone]_vars

\* C13: when the host grants the request of a startCamera call, the first
\* or the fallback one, the state stores the granted stream, isActive is
\* true and permissions is 'granted'.
GrantStoresStreamActiveGranted ==
    [][\A c \in Requesting(calls) :
          (mounted /\ variant # "Basic" /\ GrantStep(c)) =>
              /\ stream' = Len(streams')
              /\ isActive'
              /\ permissions' = "granted"]_vars

\* switchCamera and the render that follows it, from state s
Switched(s) == Commit(s, switchCamera(s))

\* startCamera of the current render and the render that follows, from s
Started(s) == Commit(s, startCamera(s, Closure(s)))

\* the calls state n has and state s has not
CallsAdded(s, n) ==
    {c \in BagToSet(n.calls) : CopiesIn(c, n.calls) > CopiesIn(c, s.calls)}

\* C14: switchCamera with no session active changes facingMode to the
\* other value and nothing else (no request, no call), and the startCamera
\* after it asks for the toggled facing value.
SwitchWhileInactiveOnlyToggles ==
    (mounted /\ variant # "Basic" /\ ~isActive) =>
        /\ Switched(State) = [State EXCEPT !.facingMode = Toggle(facingMode)]
        /\ \A c \in CallsAdded(State, Started(Switched(State))) :
              c.constraints.facingMode = Toggle(facingMode)

\* C14's case: no session is active, facingMode is 'environment' after an
\* earlier switch, and a startCamera after one more switchCamera would
\* issue a call.
InactiveAndSwitchable ==
    /\ mounted
    /\ variant # "Basic"
    /\ ~isActive
    /\ stream = 0
    /\ facingMode = "environment"
    /\ Switched(State).facingMode = "user"
    /\ CallsAdded(State, Started(Switched(State))) # {}

\* the error kind of section 7 a host failure name is classified into
KindOf(e) ==
    CASE e = "NotAllowedError" -> "PermissionDenied"
      [] e = "NotFoundError" -> "DeviceNotFound"
      [] e = "NotReadableError" -> "DeviceBusy"
      [] e = "OverconstrainedError" -> "ConstraintsNotSatisfiable"
      [] OTHER -> "Unavailable"

\* C15: when the host rejects the request of a startCamera call, the error
\* stored by that step is the message of the kind the failure name is
\* classified into: NotAllowedError PermissionDenied, NotFoundError
\* DeviceNotFound, NotReadableError DeviceBusy, OverconstrainedError
\* ConstraintsNotSatisfiable, any other name Unavailable.
FailureClassifiedByName ==
    [][\A c \in Requesting(calls) : \A e \in ErrorNames :
          (mounted /\ variant # "Basic" /\ c.phase = "first" /\ RejectStep(c, e))
              => ErrorKind(error') = KindOf(e)]_vars

\* the state when startCamera is called in s, the permission query (where
\* the variant makes one) resolves and the host rejects the request with e,
\* with no other step in between
FailedStart(s, e) ==
    LET a == Started(s)
        q == CHOOSE c \in CallsAdded(s, a) : TRUE
        b == IF q.phase = "query" THEN Commit(a, queryResolved(a, q)) ELSE a
        r == CHOOSE c \in CallsAdded(s, b) : TRUE
    IN  Commit(b, rejected(b, r, e))

\* startCamera called in s gets as far as its getUserMedia request
StartReachesRequest(s) ==
    /\ s.mounted
    /\ s.variant # "Basic"
    /\ s.hasCamera
    /\ s.variant = "App" => (s.hasPermissions /\ s.hostPerm # "denied")

\* C16: a startCamera that fails with any error other than NotAllowedError
\* leaves permissions as it was when startCamera was called.
FailedStartKeepsPermissions ==
    StartReachesRequest(State) =>
        \A e \in ErrorNames \ {"NotAllowedError"} :
            FailedStart(State, e).permissions = permissions

\* C17: without navigator.permissions, no request is issued before a user
\* action; Start still issues a getUserMedia request; permissions changes
\* only to 'granted' when a request is granted and to 'denied' when one is
\* rejected with NotAllowedError; and a request is issued only by a user
\* action (Start, Switch, the first interaction) or by the fallback of a
\* call a user action started.
NoQueryFacilityStillRequests ==
    /\ ~hasPermissions => requests = 0
    /\ [][(mounted /\ ~hasPermissions) =>
            /\ ClickStart => requests' = requests + 1
            /\ permissions' # permissions =>
                  \E c \in Requesting(calls) :
                      \/ GrantStep(c) /\ permissions' = "granted"
                      \/ /\ RejectStep(c, "NotAllowedError")
                         /\ permissions' = "denied"
            /\ requests' > requests =>
                  \/ ClickStart
                  \/ ClickSwitch
                  \/ UserInteraction
                  \/ \E c \in Requesting(calls) :
                        RejectStep(c, "OverconstrainedError")]_vars

\* a page interaction in s with the interaction listener registered, and the
\* render that follows
Interacted(s) == Commit(s, handleUserInteraction(s))

\* the host grants a request in flight in s
Granted(s) ==
    LET c == CHOOSE c \in Requesting(s.calls) : TRUE
    IN  Commit(s, granted(s, c))

\* C18: the first-interaction start is one-shot.  When the first page
\* interaction has fired the handler and started the camera, the host has
\* granted the request and stopCamera has ended that session, either no
\* interaction listener is registered or a further page interaction issues
\* no request.
InteractionStartIsOneShot ==
    (mounted /\ variant = "CameraComponent" /\ hasCamera /\ listening
       /\ requests = 0 /\ permissions # "denied") =>
        LET stopped == Stopped(Granted(Interacted(State)))
        IN  \/ ~stopped.listening
            \/ Interacted(stopped).requests = stopped.requests

\* C19: the permission query of the mount effect resolves once.  When it
\* resolves 'granted', that step calls startCamera with no user action: on
\* a host with a camera one request is issued, for facing 'user'.  When it
\* resolves 'prompt' or 'denied' that step issues no request, and neither
\* does a later change of the host's permission state.
GrantedAtMountAutoStarts ==
    [][/\ PermissionQueryResolves =>
            /\ permQuery' = "subscribed"
            /\ permissions' = hostPerm \/ ~mounted
            /\ (hostPerm = "granted" /\ hasCamera) =>
                  /\ requests' = requests + 1
                  /\ \E c \in NewCalls :
                        /\ c.phase = "first"
                        /\ c.constraints = getConstraints(variant, "user")
            /\ hostPerm # "granted" =>
                  /\ requests' = requests
                  /\ calls' = calls
       /\ permQuery # "pending" => permQuery' # "pending"
       /\ HostPermissionChanges =>
            /\ requests' = requests
            /\ calls' = calls]_vars

\* C19's case: the query resolved 'granted' and the request of the
\* automatic startCamera is in flight, no stream having been granted yet
AutoStartedAtMount ==
    /\ variant = "CameraComponent"
    /\ mounted
    /\ permQuery = "subscribed"
    /\ hostPerm = "granted"
    /\ permissions = "granted"
    /\ requests = 1
    /\ streams = <<>>
    /\ isLoading
    /\ \E c \in Requesting(calls) : c.constraints = getConstraints(variant, "user")

\* C20: in a step that starts and ends with permissions 'denied', a page
\* interaction, the resolution of the mount effect's permission query and a
\* change of the host's permission state issue no request and start no
\* call; a request is issued only by Start or Switch, or by a call already
\* running (its request after the permission query, its fallback request).
NoAutoStartWhileDenied ==
    [][(mounted /\ permissions = "denied" /\ permissions' = "denied") =>
          /\ (UserInteraction \/ PermissionQueryResolves
                \/ HostPermissionChanges) =>
                /\ requests' = requests
                /\ calls' = calls
          /\ requests' > requests =>
                \/ ClickStart
                \/ ClickSwitch
                \/ QueryResolves
                \/ \E c \in Requesting(calls) :
                      RejectStep(c, "OverconstrainedError")]_vars

\* C20's case: a startCamera failed with NotAllowedError and a page
\* interaction has fired the handler since, which removed its listeners and
\* started nothing
InteractedWhileDenied ==
    /\ variant = "CameraComponent"
    /\ mounted
    /\ hasCamera
    /\ permissions = "denied"
    /\ error = MsgDenied
    /\ ~isActive
    /\ ~isLoading
    /\ ~listening
    /\ calls = EmptyBag

\* the state when startCamera is called in s, the permission query (where
\* the variant makes one) resolves and the host grants the request, with no
\* other step in between
SucceededStart(s) ==
    LET a == Started(s)
        q == CHOOSE c \in CallsAdded(s, a) : TRUE
        b == IF q.phase = "query" THEN Commit(a, queryResolved(a, q)) ELSE a
        r == CHOOSE c \in CallsAdded(s, b) : TRUE
    IN  Commit(b, granted(b, r))

\* C21: the step in which a startCamera call ends in failure leaves an
\* error stored, isActive false and isLoading false; and a startCamera
\* called in the state it leaves issues a new request and is active once
\* the host has granted it.
FailedStartIsConsistentAndRecoverable ==
    [][\A c \in Requesting(calls) : \A e \in ErrorNames :
          (/\ mounted
           /\ variant # "Basic"
           /\ RejectStep(c, e)
           /\ BagCardinality(calls') < BagCardinality(calls))
          => /\ error' # MsgNone
             /\ ~isActive'
             /\ ~isLoading'
             /\ StartReachesRequest(State') =>
                   /\ Started(State').requests > requests'
                      \/ SucceededStart(State').requests > requests'
                   /\ SucceededStart(State').isActive]_vars

\* C22: every stream the host granted that still has unstopped tracks is
\* the stream stored in the mounted component, or is held by a startCamera
\* call that stops it when its permission query has resolved.
EveryGrantedStreamStoredOrStopped ==
    \A id \in LiveStreams(streams) :
        \/ mounted /\ stream = id
        \/ \E c \in BagToSet(calls) : c.phase = "query" /\ c.stream = id

\* C23: in CameraComponent and App.tsx, isLoading is true while a
\* getUserMedia request of a startCamera call (first or fallback) is in
\* flight.
LoadingWhileRequestInFlight ==
    (mounted /\ variant # "Basic" /\ InFlight(calls) > 0) => isLoading

\* the host settles a promise a startCamera call is waiting for
HostSettles == HostGrants \/ HostRejects \/ QueryResolves \/ QueryRejects

\* the component under a host that settles each request it receives
FairSpec == Spec /\ WF_vars(HostSettles)

\* C24: while the component is mounted, isLoading set to true by a
\* startCamera call is eventually false again, on every path of the call,
\* when the host settles each request.
LoadingEventuallyCleared ==
    (mounted /\ variant # "Basic" /\ isLoading) ~> (~isLoading \/ ~mounted)

\* C24's case: a startCamera call went through the fallback request, the
\* host rejected that too, and the call has cleared isLoading
LoadingClearedAfterFallbackFailure ==
    /\ mounted
    /\ variant = "CameraComponent"
    /\ error = MsgAnySettings
    /\ ~isLoading
    /\ calls = EmptyBag

\* C24 in steps: in the mounted component isLoading is true only while a
\* startCamera call is waiting for the host, and every step that ends a
\* call (success, each failure, fallback success, fallback failure, the
\* return on a 'denied' permission query) leaves isLoading false.
LoadingClearedOnEveryPath ==
    [][(mounted /\ variant # "Basic") =>
          /\ isLoading' => calls' # EmptyBag
          /\ BagCardinality(calls') < BagCardinality(calls) => ~isLoading']_vars

====
